---- MODULE Spec2Model ----
(***************************************************************************)
(* Model of sage/cpython/atexit.pyx: the restore_atexit context manager    *)
(* and the three registry accessors _get_exithandlers, _set_exithandlers   *)
(* and _clear_exithandlers, in both build variants (PY_MAJOR_VERSION == 2: *)
(* the list atexit._exithandlers; otherwise the atexitmodule_state array). *)
(* The interpreter's atexit.register and atexit._run_exitfuncs are the     *)
(* collaborators the module calls; they are modelled as the module's       *)
(* docstring shows them to behave.                                         *)
(***************************************************************************)
EXTENDS Integers, Sequences, FiniteSets, TLC

\* Longest registry (and longest list handed to _set_exithandlers) explored
\* when the program uses one guard.
MaxReg == 2

\* Longest registry explored when the program nests or interleaves two guards.
MaxNestedReg == 3

Guards == {"G1", "G2"}
Variants == {"list", "state"}

\* The argument values `clear` can take in restore_atexit(run=..., clear=...).
ClearArgs == {"None", "False", "True"}

\* Exit handlers as Python sees them: (func, args, kwargs).
CbA == [func |-> "handler", args |-> <<1, 2>>, kwargs |-> {<<"c", 3>>}]
CbB == [func |-> "handler", args |-> <<4, 5>>, kwargs |-> {<<"d", 6>>}]
CbC == [func |-> "cleanup", args |-> <<>>, kwargs |-> {}]
Callbacks == {CbA, CbB, CbC}

\* The functions that can raise when called.  handler is the docstring's
\* function, which only prints.
Raising == {"cleanup"}

RECURSIVE SeqsUpTo(_, _)
SeqsUpTo(S, n) ==
    IF n = 0 THEN {<<>>}
    ELSE LET shorter == SeqsUpTo(S, n - 1)
         IN  shorter \cup {Append(s, x) : s \in {t \in shorter : Len(t) = n - 1}, x \in S}

\* Well-formed lists of exit handlers.
Handlers == SeqsUpTo(Callbacks, MaxReg)

Reverse(s) == [i \in 1..Len(s) |-> s[Len(s) + 1 - i]]

VARIABLES
    variant,        \* which branch of the IF PY_MAJOR_VERSION == 2 was compiled
    registry,       \* atexit._exithandlers / atexitmodule_state.atexit_callbacks
    phase,          \* per guard: "none", "init", "active" (inside with), "done"
    _run,           \* restore_atexit._run
    _clear,         \* restore_atexit._clear
    _exithandlers,  \* restore_atexit._exithandlers (<<>> stands for None while phase = "init")
    stack,          \* guards whose with-block is open, outermost first
    ctor,           \* history: the arguments of each guard's __init__
    atEnter,        \* history: the registry's contents when each guard was entered
    last,           \* history: the operation performed last and how it ended
    called,         \* history: the calls made to handlers by the last operation
    xfer,           \* history: the list passed to / returned by the last accessor
    twin            \* the registry of the other build variant, when the program
                    \* is run on both builds side by side

vars == <<variant, registry, phase, _run, _clear, _exithandlers, stack, ctor,
          atEnter, last, called, xfer, twin>>

\* One slot of the registry.  kwnull says the stored kwargs pointer is NULL
\* (atexit_callback.kwargs); a list-variant tuple always carries a dict.
Slot(cb, kwnull) ==
    [func |-> cb.func, args |-> cb.args, kwargs |-> cb.kwargs, kwnull |-> kwnull]

\* What the registry holds, handler by handler, as (func, args, kwargs).
Contents(reg) ==
    [i \in 1..Len(reg) |->
        [func |-> reg[i].func, args |-> reg[i].args, kwargs |-> reg[i].kwargs]]

\* atexit.register(func, *args, **kwargs).  In the state variant a call without
\* keyword arguments stores a NULL kwargs pointer; nokw tells whether the
\* caller passed no keyword mapping at all.
atexit_register(v, reg, cb, nokw) ==
    Append(reg, Slot(cb, v = "state" /\ nokw /\ cb.kwargs = {}))

\* atexit._clear()
atexit__clear(reg) == <<>>

\* Some handler of the registry can raise.
CanFail(reg) == \E i \in 1..Len(reg) : reg[i].func \in Raising

\* atexit._run_exitfuncs(): calls the handlers last-registered first, empties
\* the registry, and raises afterwards when a handler failed.
atexit__run_exitfuncs(reg, fail) ==
    [registry |-> <<>>,
     called   |-> Reverse(Contents(reg)),
     raised   |-> fail /\ CanFail(reg)]

RECURSIVE GetLoop(_, _, _)
GetLoop(reg, idx, exithandlers) ==
    IF idx > Len(reg) THEN exithandlers
    ELSE LET callback == reg[idx]
             kwargs   == IF ~callback.kwnull THEN callback.kwargs ELSE {}
         IN  GetLoop(reg, idx + 1,
                     Append(exithandlers,
                            [func |-> callback.func, args |-> callback.args,
                             kwargs |-> kwargs]))

\* _get_exithandlers()
_get_exithandlers(v, reg) ==
    IF v = "list"
    THEN [i \in 1..Len(reg) |->
             [func |-> reg[i].func, args |-> reg[i].args, kwargs |-> reg[i].kwargs]]
    ELSE GetLoop(reg, 1, <<>>)

RECURSIVE SetLoop(_, _, _, _)
SetLoop(v, reg, exithandlers, idx) ==
    IF idx > Len(exithandlers) THEN reg
    ELSE SetLoop(v, atexit_register(v, reg, exithandlers[idx], FALSE),
                 exithandlers, idx + 1)

\* A replace that registers the new handlers after the ones already there.
_set_exithandlers_Merge(v, reg, exithandlers) ==
    IF v = "list"
    THEN reg \o [i \in 1..Len(exithandlers) |-> Slot(exithandlers[i], FALSE)]
    ELSE SetLoop(v, reg, exithandlers, 1)

\* A replace that, on the state variant, leaves out atexit._clear().
_set_exithandlers_NoClear(v, reg, exithandlers) ==
    IF v = "list"
    THEN [i \in 1..Len(exithandlers) |-> Slot(exithandlers[i], FALSE)]
    ELSE SetLoop(v, reg, exithandlers, 1)

\* A replace that registers the new handlers last first.
_set_exithandlers_Reversed(v, reg, exithandlers) ==
    IF v = "list"
    THEN [i \in 1..Len(exithandlers) |-> Slot(Reverse(exithandlers)[i], FALSE)]
    ELSE SetLoop(v, atexit__clear(reg), Reverse(exithandlers), 1)

\* _set_exithandlers(exithandlers)
_set_exithandlers(v, reg, exithandlers) ==
    IF v = "list"
    THEN [i \in 1..Len(exithandlers) |-> Slot(exithandlers[i], FALSE)]
    ELSE SetLoop(v, atexit__clear(reg), exithandlers, 1)

\* A clear that leaves the first handler registered.
_clear_exithandlers_KeepFirst(v, reg) ==
    IF Len(reg) = 0 THEN reg ELSE <<reg[1]>>

\* _clear_exithandlers()
_clear_exithandlers(v, reg) ==
    IF v = "list" THEN SubSeq(reg, 1, 0) ELSE atexit__clear(reg)

NoGuard == "-"
\* The record of an operation: which, on which guard, whether it raised, and
\* how long the registry was when it began; for __exit__ also whether the
\* with-body had raised (exc) and whether __exit__ returned a true value,
\* which would suppress the body's exception.
Did(op, g, raised) ==
    [op |-> op, g |-> g, raised |-> raised, len |-> Len(registry),
     exc |-> FALSE, suppress |-> FALSE]

Init ==
    /\ variant \in Variants
    /\ registry = <<>>
    /\ phase = [g \in Guards |-> "none"]
    /\ _run = [g \in Guards |-> FALSE]
    /\ _clear = [g \in Guards |-> FALSE]
    /\ _exithandlers = [g \in Guards |-> <<>>]
    /\ stack = <<>>
    /\ ctor = [g \in Guards |-> [run |-> FALSE, clear |-> "None"]]
    /\ atEnter = [g \in Guards |-> <<>>]
    /\ last = [op |-> "start", g |-> NoGuard, raised |-> FALSE, len |-> 0,
               exc |-> FALSE, suppress |-> FALSE]
    /\ called = <<>>
    /\ xfer = <<>>
    /\ twin = <<>>

GuardUnchanged == UNCHANGED <<variant, phase, _run, _clear, _exithandlers, stack, ctor, atEnter>>

\* PyModule_GetState(atexit) returned NULL: only the state variant asks for it.
StateMissing(v, missing) == v = "state" /\ missing

\* A register seen through a snapshot that is the registry's own list and
\* not a copy of it.
Register_Aliased(cb, nokw) ==
    /\ registry' = atexit_register(variant, registry, cb, nokw)
    /\ _exithandlers' =
          [g \in Guards |->
              IF phase[g] = "active" THEN _get_exithandlers(variant, registry')
              ELSE _exithandlers[g]]
    /\ last' = Did("register", NoGuard, FALSE)
    /\ called' = <<>>
    /\ xfer' = <<>>
    /\ UNCHANGED <<variant, phase, _run, _clear, stack, ctor, atEnter, twin>>

\* atexit.register(...) called by the program
Register(cb, nokw) ==
    /\ registry' = atexit_register(variant, registry, cb, nokw)
    /\ last' = Did("register", NoGuard, FALSE)
    /\ called' = <<>>
    /\ xfer' = <<>>
    /\ UNCHANGED twin
    /\ GuardUnchanged

\* atexit._run_exitfuncs() called by the program
RunExitfuncs(fail) ==
    /\ fail => CanFail(registry)
    /\ LET r == atexit__run_exitfuncs(registry, fail)
       IN  /\ registry' = r.registry
           /\ called' = r.called
           /\ last' = Did("run", NoGuard, r.raised)
    /\ xfer' = <<>>
    /\ UNCHANGED twin
    /\ GuardUnchanged

\* A read that takes the handlers out of the registry.
GetExithandlers_Draining(missing) ==
    /\ missing => variant = "state"
    /\ IF StateMissing(variant, missing)
       THEN /\ xfer' = <<>>
            /\ last' = Did("get", NoGuard, TRUE)
            /\ UNCHANGED registry
       ELSE /\ xfer' = _get_exithandlers(variant, registry)
            /\ last' = Did("get", NoGuard, FALSE)
            /\ registry' = <<>>
    /\ called' = <<>>
    /\ UNCHANGED twin
    /\ GuardUnchanged

\* _get_exithandlers() called by the program
GetExithandlers(missing) ==
    /\ missing => variant = "state"
    /\ IF StateMissing(variant, missing)
       THEN /\ xfer' = <<>>
            /\ last' = Did("get", NoGuard, TRUE)
       ELSE /\ xfer' = _get_exithandlers(variant, registry)
            /\ last' = Did("get", NoGuard, FALSE)
    /\ called' = <<>>
    /\ UNCHANGED <<registry, twin>>
    /\ GuardUnchanged

SetExithandlers(exithandlers) ==
    /\ registry' = _set_exithandlers(variant, registry, exithandlers)
    /\ xfer' = exithandlers
    /\ last' = Did("set", NoGuard, FALSE)
    /\ called' = <<>>
    /\ UNCHANGED twin
    /\ GuardUnchanged

ClearExithandlers ==
    /\ registry' = _clear_exithandlers(variant, registry)
    /\ xfer' = <<>>
    /\ last' = Did("clear", NoGuard, FALSE)
    /\ called' = <<>>
    /\ UNCHANGED twin
    /\ GuardUnchanged

\* An __init__ that takes no notice of clear.
GuardInit_ClearIgnored(g, run, clear) ==
    /\ phase[g] \in {"none", "done"}
    /\ _run' = [_run EXCEPT ![g] = run]
    /\ _clear' = [_clear EXCEPT ![g] = run]
    /\ _exithandlers' = [_exithandlers EXCEPT ![g] = <<>>]
    /\ phase' = [phase EXCEPT ![g] = "init"]
    /\ ctor' = [ctor EXCEPT ![g] = [run |-> run, clear |-> clear]]
    /\ atEnter' = [atEnter EXCEPT ![g] = <<>>]
    /\ last' = Did("__init__", g, FALSE)
    /\ called' = <<>>
    /\ xfer' = <<>>
    /\ UNCHANGED <<variant, registry, stack, twin>>

\* restore_atexit.__init__(run=run, clear=clear)
GuardInit(g, run, clear) ==
    /\ phase[g] \in {"none", "done"}
    /\ _run' = [_run EXCEPT ![g] = run]
    /\ _clear' = [_clear EXCEPT ![g] = IF clear # "None" THEN clear = "True" ELSE run]
    /\ _exithandlers' = [_exithandlers EXCEPT ![g] = <<>>]
    /\ phase' = [phase EXCEPT ![g] = "init"]
    /\ ctor' = [ctor EXCEPT ![g] = [run |-> run, clear |-> clear]]
    /\ atEnter' = [atEnter EXCEPT ![g] = <<>>]
    /\ last' = Did("__init__", g, FALSE)
    /\ called' = <<>>
    /\ xfer' = <<>>
    /\ UNCHANGED <<variant, registry, stack, twin>>

\* An __enter__ that clears the registry before it reads it.
GuardEnter_ClearFirst(g, missing) ==
    /\ phase[g] = "init"
    /\ missing => variant = "state"
    /\ registry' = IF _clear[g] THEN _clear_exithandlers(variant, registry) ELSE registry
    /\ IF StateMissing(variant, missing)
       THEN /\ last' = Did("__enter__", g, TRUE)
            /\ UNCHANGED <<phase, _exithandlers, stack, atEnter>>
       ELSE /\ _exithandlers' =
                  [_exithandlers EXCEPT ![g] = _get_exithandlers(variant, registry')]
            /\ phase' = [phase EXCEPT ![g] = "active"]
            /\ stack' = Append(stack, g)
            /\ atEnter' = [atEnter EXCEPT ![g] = Contents(registry)]
            /\ last' = Did("__enter__", g, FALSE)
    /\ called' = <<>>
    /\ xfer' = <<>>
    /\ UNCHANGED <<variant, _run, _clear, ctor, twin>>

\* restore_atexit.__enter__.  When _get_exithandlers() raises, nothing after
\* it is run: the guard keeps no snapshot and its with-body is not entered.
GuardEnter(g, missing) ==
    /\ phase[g] = "init"
    /\ missing => variant = "state"
    /\ IF StateMissing(variant, missing)
       THEN /\ last' = Did("__enter__", g, TRUE)
            /\ UNCHANGED <<registry, phase, _exithandlers, stack, atEnter>>
       ELSE /\ _exithandlers' =
                  [_exithandlers EXCEPT ![g] = _get_exithandlers(variant, registry)]
            /\ registry' = IF _clear[g] THEN _clear_exithandlers(variant, registry)
                           ELSE registry
            /\ phase' = [phase EXCEPT ![g] = "active"]
            /\ stack' = Append(stack, g)
            /\ atEnter' = [atEnter EXCEPT ![g] = Contents(registry)]
            /\ last' = Did("__enter__", g, FALSE)
    /\ called' = <<>>
    /\ xfer' = <<>>
    /\ UNCHANGED <<variant, _run, _clear, ctor, twin>>

\* An __exit__ that restores the snapshot before it runs the handlers.
GuardExit_RestoreFirst(g, fail, exc) ==
    /\ phase[g] = "active"
    /\ LET restored == _set_exithandlers(variant, registry, _exithandlers[g])
           r == IF _run[g] THEN atexit__run_exitfuncs(restored, fail)
                ELSE [registry |-> restored, called |-> <<>>, raised |-> FALSE]
       IN  /\ fail => (_run[g] /\ CanFail(restored))
           /\ registry' = r.registry
           /\ called' = r.called
           /\ last' = [Did("__exit__", g, r.raised) EXCEPT !.exc = exc, !.suppress = FALSE]
    /\ phase' = [phase EXCEPT ![g] = "done"]
    /\ stack' = SelectSeq(stack, LAMBDA h : h # g)
    /\ xfer' = <<>>
    /\ UNCHANGED <<variant, _run, _clear, _exithandlers, ctor, atEnter, twin>>

\* An __exit__ that runs the handlers whatever run was.
GuardExit_AlwaysRun(g, fail, exc) ==
    /\ phase[g] = "active"
    /\ fail => CanFail(registry)
    /\ LET r == atexit__run_exitfuncs(registry, fail)
       IN  /\ registry' = IF r.raised THEN r.registry
                          ELSE _set_exithandlers(variant, r.registry, _exithandlers[g])
           /\ called' = r.called
           /\ last' = [Did("__exit__", g, r.raised) EXCEPT !.exc = exc, !.suppress = FALSE]
    /\ phase' = [phase EXCEPT ![g] = "done"]
    /\ stack' = SelectSeq(stack, LAMBDA h : h # g)
    /\ xfer' = <<>>
    /\ UNCHANGED <<variant, _run, _clear, _exithandlers, ctor, atEnter, twin>>

\* restore_atexit.__exit__(*exc): exc tells whether the with-body raised.
\* __exit__ takes no notice of it and returns None.
GuardExit(g, fail, exc) ==
    /\ phase[g] = "active"
    /\ fail => (_run[g] /\ CanFail(registry))
    /\ LET r == IF _run[g] THEN atexit__run_exitfuncs(registry, fail)
                ELSE [registry |-> registry, called |-> <<>>, raised |-> FALSE]
       IN  /\ registry' = IF r.raised THEN r.registry
                          ELSE _set_exithandlers(variant, r.registry, _exithandlers[g])
           /\ called' = r.called
           /\ last' = [Did("__exit__", g, r.raised) EXCEPT !.exc = exc, !.suppress = FALSE]
    /\ phase' = [phase EXCEPT ![g] = "done"]
    /\ stack' = SelectSeq(stack, LAMBDA h : h # g)
    /\ xfer' = <<>>
    /\ UNCHANGED <<variant, _run, _clear, _exithandlers, ctor, atEnter, twin>>

Next ==
    \/ \E cb \in Callbacks, nokw \in BOOLEAN : Len(registry) < MaxReg /\ Register(cb, nokw)
    \/ \E fail \in BOOLEAN : RunExitfuncs(fail)
    \/ \E missing \in BOOLEAN : GetExithandlers(missing)
    \/ \E exithandlers \in Handlers : SetExithandlers(exithandlers)
    \/ ClearExithandlers
    \/ \E run \in BOOLEAN, clear \in ClearArgs : GuardInit("G1", run, clear)
    \/ \E missing \in BOOLEAN : GuardEnter("G1", missing)
    \/ \E fail \in BOOLEAN, exc \in BOOLEAN : GuardExit("G1", fail, exc)

Spec == Init /\ [][Next]_vars

\* The handler the two-guard program registers when the registry holds n.
NextHandler(n) == <<CbA, CbB, CbC>>[(n % 3) + 1]

\* A program that uses two guards, each once, and opens the second while the
\* first is open; it closes them in either order and registers handlers
\* (A, then B, then C) in between.
NextNested ==
    \/ \E nokw \in BOOLEAN :
          /\ Len(registry) < MaxNestedReg
          /\ Register(NextHandler(Len(registry)), nokw)
    \/ \E run \in BOOLEAN, clear \in ClearArgs :
          phase["G1"] = "none" /\ GuardInit("G1", run, clear)
    \/ \E run \in BOOLEAN, clear \in ClearArgs :
          phase["G1"] = "active" /\ phase["G2"] = "none" /\ GuardInit("G2", run, clear)
    \/ \E g \in Guards, missing \in BOOLEAN : GuardEnter(g, missing)
    \/ \E g \in Guards, fail \in BOOLEAN, exc \in BOOLEAN : GuardExit(g, fail, exc)

SpecNested == Init /\ [][NextNested]_vars

\* The build variant that was not compiled.
OtherVariant(v) == IF v = "list" THEN "state" ELSE "list"

\* The program's operations performed on both builds side by side: registry
\* is the compiled variant's, twin the other variant's.
BothRegister(cb, nokw) ==
    /\ registry' = atexit_register(variant, registry, cb, nokw)
    /\ twin' = atexit_register(OtherVariant(variant), twin, cb, nokw)
    /\ last' = Did("register", NoGuard, FALSE)
    /\ called' = <<>>
    /\ xfer' = <<>>
    /\ GuardUnchanged

BothRunExitfuncs(fail) ==
    /\ fail => CanFail(registry)
    /\ LET r == atexit__run_exitfuncs(registry, fail)
           t == atexit__run_exitfuncs(twin, fail)
       IN  /\ registry' = r.registry
           /\ twin' = t.registry
           /\ called' = r.called
           /\ last' = Did("run", NoGuard, r.raised)
    /\ xfer' = <<>>
    /\ GuardUnchanged

BothGetExithandlers ==
    /\ xfer' = _get_exithandlers(variant, registry)
    /\ last' = Did("get", NoGuard, FALSE)
    /\ called' = <<>>
    /\ UNCHANGED <<registry, twin>>
    /\ GuardUnchanged

BothSetExithandlers(exithandlers) ==
    /\ registry' = _set_exithandlers(variant, registry, exithandlers)
    /\ twin' = _set_exithandlers(OtherVariant(variant), twin, exithandlers)
    /\ xfer' = exithandlers
    /\ last' = Did("set", NoGuard, FALSE)
    /\ called' = <<>>
    /\ GuardUnchanged

BothClearExithandlers ==
    /\ registry' = _clear_exithandlers(variant, registry)
    /\ twin' = _clear_exithandlers(OtherVariant(variant), twin)
    /\ xfer' = <<>>
    /\ last' = Did("clear", NoGuard, FALSE)
    /\ called' = <<>>
    /\ GuardUnchanged

NextBoth ==
    \/ \E cb \in Callbacks, nokw \in BOOLEAN :
          Len(registry) < MaxReg /\ BothRegister(cb, nokw)
    \/ \E fail \in BOOLEAN : BothRunExitfuncs(fail)
    \/ BothGetExithandlers
    \/ \E exithandlers \in Handlers : BothSetExithandlers(exithandlers)
    \/ BothClearExithandlers

SpecBoth == Init /\ [][NextBoth]_vars

----------------------------------------------------------------------------
\* The last operation was op on guard g and it raised, or not.
Was(op, g, raised) == last.op = op /\ last.g = g /\ last.raised = raised

\* Steps of a guard, recognised from the guard's phase.
EnterStep(g) == phase[g] = "init" /\ phase'[g] = "active"
ExitStep(g) == phase[g] = "active" /\ phase'[g] = "done"

\* C1: once __exit__ has returned normally, the registry holds, element for
\* element and in the same order, what it held when __enter__ was called,
\* whatever the guard's run and clear and whatever was done in between.
RestoreOnNormalExit ==
    \A g \in Guards :
        Was("__exit__", g, FALSE) =>
            /\ Contents(registry) = atEnter[g]
            /\ _get_exithandlers(variant, registry) = atEnter[g]

\* A guard with run=True returned from __exit__ after running handlers that
\* the scope had registered on top of a non-empty registry.
RestoreOnNormalExitWitness ==
    /\ Was("__exit__", "G1", FALSE)
    /\ _run["G1"]
    /\ atEnter["G1"] # <<>>
    /\ called # <<>>
    /\ called # Reverse(atEnter["G1"])
    /\ Contents(registry) = atEnter["G1"]

\* C2: when __exit__ raises because a handler it ran failed, the registry
\* still holds what it held when __enter__ was called.
RestoreDespiteCallbackFailure ==
    \A g \in Guards :
        Was("__exit__", g, TRUE) => Contents(registry) = atEnter[g]

\* s and t hold the same elements, each as many times.
SameBag(s, t) ==
    /\ Len(s) = Len(t)
    /\ \A i \in 1..Len(s) :
          Cardinality({j \in 1..Len(s) : s[j] = s[i]}) =
          Cardinality({j \in 1..Len(t) : t[j] = s[i]})

\* Every element of s is in t at least as many times.
SubBag(s, t) ==
    \A i \in 1..Len(s) :
        Cardinality({j \in 1..Len(s) : s[j] = s[i]}) <=
        Cardinality({j \in 1..Len(t) : t[j] = s[i]})

\* C3: releasing a guard that is the innermost open one leaves the registry
\* as it was at that guard's __enter__; and with A, B registered, G1 entered,
\* C registered, G2 entered with clear: the registry is empty inside G2, is
\* [A, B, C] after G2's __exit__ and [A, B] after G1's.
NestingComposes ==
    [][ /\ \A g \in Guards :
             (ExitStep(g) /\ stack[Len(stack)] = g)
                 => Contents(registry') = atEnter[g]
        /\ (atEnter["G1"] = <<CbA, CbB>> /\ _clear["G2"]
               /\ Contents(registry) = <<CbA, CbB, CbC>>)
              => /\ EnterStep("G2") => registry' = <<>>
        /\ (atEnter["G1"] = <<CbA, CbB>> /\ _clear["G2"]
               /\ atEnter["G2"] = <<CbA, CbB, CbC>>)
              => /\ ExitStep("G2") => Contents(registry') = <<CbA, CbB, CbC>>
                 /\ (ExitStep("G1") /\ phase["G2"] = "done")
                       => Contents(registry') = <<CbA, CbB>>
      ]_vars

RunOnly == [run |-> TRUE, clear |-> "None"]

\* C4: a guard made with run=True and no clear empties the registry on
\* __enter__; its __exit__ calls each handler then registered exactly once
\* and leaves the registry as it was before __enter__, so that a later
\* _run_exitfuncs calls handlers registered before the scope only.
RunDefaultsToClear ==
    [][ \A g \in Guards :
          ctor'[g] = RunOnly =>
            /\ EnterStep(g) => registry' = <<>>
            /\ ExitStep(g) => /\ SameBag(called', Contents(registry))
                               /\ Contents(registry') = atEnter[g]
            /\ (last.op = "__exit__" /\ last.g = g /\ last'.op = "run")
                  => /\ SubBag(called', atEnter[g])
                     /\ Contents(registry) = atEnter[g]
      ]_vars

RunKeep == [run |-> TRUE, clear |-> "False"]

\* C5: a guard made with run=True, clear=False leaves the registry alone on
\* __enter__; its __exit__ calls each handler then registered exactly once
\* with its stored arguments, and afterwards the handlers registered before
\* __enter__ are registered again, so that a following _run_exitfuncs calls
\* each of them once more.
RunKeepRunsOriginalsTwice ==
    [][ \A g \in Guards :
          ctor'[g] = RunKeep =>
            /\ EnterStep(g) => Contents(registry') = Contents(registry)
            /\ ExitStep(g) => /\ SameBag(called', Contents(registry))
                               /\ Contents(registry') = atEnter[g]
            /\ (last.op = "__exit__" /\ last.g = g /\ last'.op = "run")
                  => SameBag(called', atEnter[g])
      ]_vars

\* The clear flag restore_atexit(run, clear) is to act on.
EffectiveClear(c) == IF c.clear = "None" THEN c.run ELSE c.clear = "True"

\* C6: the guard's clear flag is clear when given and run otherwise; right
\* after __enter__ the registry is empty when the flag is set and as before
\* otherwise, and the guard's snapshot is the registry's former contents.
EffectiveClearOnEnter ==
    \A g \in Guards :
        /\ phase[g] # "none" => _clear[g] = EffectiveClear(ctor[g])
        /\ Was("__enter__", g, FALSE) =>
              /\ _exithandlers[g] = atEnter[g]
              /\ Contents(registry) = IF EffectiveClear(ctor[g]) THEN <<>> ELSE atEnter[g]
              /\ _get_exithandlers(variant, registry)
                    = IF EffectiveClear(ctor[g]) THEN <<>> ELSE atEnter[g]

\* __enter__ has just cleared a non-empty registry for a guard made with
\* run=False, clear=True.
EffectiveClearOnEnterWitness ==
    /\ Was("__enter__", "G1", FALSE)
    /\ ctor["G1"] = [run |-> FALSE, clear |-> "True"]
    /\ Len(atEnter["G1"]) >= 2
    /\ registry = <<>>

\* C7 as stated: __exit__ of a guard with run set calls the registered
\* handlers first-registered first.
RunOrderAsRegistered ==
    [][ \A g \in Guards :
          (ExitStep(g) /\ _run[g]) => called' = Contents(registry) ]_vars

\* C7: __exit__ of a guard with run set calls the handlers that are in the
\* registry when it begins (not those of the snapshot it restores afterwards),
\* last-registered first, each with its stored arguments.
RunOrderReversed ==
    [][ \A g \in Guards :
          (ExitStep(g) /\ _run[g]) => called' = Reverse(Contents(registry)) ]_vars

\* __exit__ has run two different handlers, which are not the snapshot's.
RunOrderReversedWitness ==
    /\ last.op = "__exit__" /\ last.g = "G1" /\ _run["G1"]
    /\ Len(called) >= 2 /\ called[1] # called[2]
    /\ atEnter["G1"] # <<>>
    /\ ~SameBag(called, atEnter["G1"])

\* C8: with handler(1, 2, c=3) registered before handler(4, 5, d=6), the
\* __exit__ of a guard made with run=True, clear=False calls the second
\* before the first and returns with both registered in the original order,
\* and so does a _run_exitfuncs that follows the __exit__.
DoctestRunOrder ==
    [][ \A g \in Guards :
          (ctor[g] = RunKeep /\ atEnter[g] = <<CbA, CbB>>) =>
            /\ (ExitStep(g) /\ Contents(registry) = <<CbA, CbB>>)
                  => /\ called' = <<CbB, CbA>>
                     /\ ~last'.raised
                     /\ Contents(registry') = <<CbA, CbB>>
            /\ (Was("__exit__", g, FALSE) /\ last'.op = "run")
                  => called' = <<CbB, CbA>>
      ]_vars

\* _run_exitfuncs has called the two handlers, second first, after the guard
\* made with run=True, clear=False over them was left.
DoctestRunOrderWitness ==
    /\ last.op = "run" /\ last.len = 2
    /\ called = <<CbB, CbA>>
    /\ phase["G1"] = "done"
    /\ ctor["G1"] = RunKeep
    /\ atEnter["G1"] = <<CbA, CbB>>

\* C9: after _set_exithandlers(S), _get_exithandlers() returns S, whatever
\* the registry held; and _set_exithandlers(_get_exithandlers()) leaves what
\* _get_exithandlers() returns unchanged.
ReplaceAllIsTotal ==
    /\ last.op = "set" =>
          /\ _get_exithandlers(variant, registry) = xfer
          /\ Contents(registry) = xfer
    /\ LET cur == _get_exithandlers(variant, registry)
       IN  /\ _get_exithandlers(variant, _set_exithandlers(variant, registry, cur)) = cur
           /\ Contents(_set_exithandlers(variant, registry, cur)) = Contents(registry)

\* _set_exithandlers replaced a non-empty registry by two different handlers.
ReplaceAllIsTotalWitness ==
    /\ last.op = "set" /\ last.len >= 1
    /\ Len(xfer) >= 2 /\ xfer[1] # xfer[2]
    /\ Contents(registry) = xfer

\* C10: after _clear_exithandlers(), called directly or by __enter__,
\* _get_exithandlers() returns the empty list and no handler was called; and
\* _clear_exithandlers() leaves the registry as _set_exithandlers([]) would.
ClearAllEmpties ==
    /\ (last.op = "clear" \/ (last.op = "__enter__" /\ ~last.raised /\ _clear[last.g])) =>
          /\ _get_exithandlers(variant, registry) = <<>>
          /\ registry = <<>>
          /\ called = <<>>
    /\ _clear_exithandlers(variant, registry) = _set_exithandlers(variant, registry, <<>>)

\* _clear_exithandlers() was called on a registry of two handlers or more.
ClearAllEmptiesWitness ==
    /\ last.op = "clear" /\ last.len >= 2
    /\ registry = <<>>

\* C11: _get_exithandlers() leaves the registry as it is; it returns the
\* registered handlers in registration order as (func, args, kwargs), kwargs
\* being the empty mapping where none was stored; and a second call right
\* after the first returns the same list.
ReadAllIsNonMutating ==
    [][ (last'.op = "get" /\ ~last'.raised) =>
          /\ registry' = registry
          /\ xfer' = Contents(registry)
          /\ \A i \in 1..Len(registry) : registry[i].kwnull => xfer'[i].kwargs = {}
          /\ (last.op = "get" /\ ~last.raised) => xfer' = xfer
      ]_vars

\* _get_exithandlers() returned two different handlers, one of them stored
\* with a NULL kwargs pointer.
ReadAllIsNonMutatingWitness ==
    /\ last.op = "get" /\ ~last.raised
    /\ Len(xfer) >= 2 /\ xfer[1] # xfer[2]
    /\ \E i \in 1..Len(registry) : registry[i].kwnull
    /\ xfer = Contents(registry)

\* C12: when the module state is missing, _get_exithandlers() raises and
\* returns nothing, and the registry is as before; __enter__ then raises
\* before it clears, whatever the guard's clear flag, so that every handler
\* stays registered.
IntrospectionFailure ==
    [][ /\ GetExithandlers(TRUE) =>
              /\ last'.raised
              /\ xfer' = <<>>
              /\ registry' = registry
        /\ \A g \in Guards :
              GuardEnter(g, TRUE) =>
                  /\ last'.raised
                  /\ registry' = registry
                  /\ called' = <<>>
                  /\ phase'[g] = "init"
      ]_vars

\* __enter__ of a guard that clears has raised over two registered handlers.
IntrospectionFailureWitness ==
    /\ Was("__enter__", "G1", TRUE)
    /\ _clear["G1"]
    /\ Len(registry) >= 2
    /\ phase["G1"] = "init"

\* C13: when the with-body raised, __exit__ is run all the same, the
\* registry afterwards holds what it held at __enter__, and __exit__ returns
\* nothing that would suppress the body's exception.
RestoreOnFailingBody ==
    \A g \in Guards :
        (last.op = "__exit__" /\ last.g = g /\ last.exc) =>
            /\ Contents(registry) = atEnter[g]
            /\ ~last.suppress

\* C14: with G1 entered before G2 and left before it, each __exit__ writes
\* its own guard's snapshot over the registry, G1's while G2 is still open;
\* after both the registry holds what it held at G2's __enter__.
InterleavedGuardsClobber ==
    [][ /\ (ExitStep("G1") /\ phase["G2"] = "active")
              => Contents(registry') = atEnter["G1"]
        /\ (ExitStep("G2") /\ phase["G1"] = "done")
              => Contents(registry') = atEnter["G2"]
      ]_vars

\* C16: a guard made without run calls no handler, neither in __enter__ nor
\* in __exit__; its __exit__ returns with the registry as it was at
\* __enter__, so that a handler registered in the scope is dropped uncalled
\* and a _run_exitfuncs that follows calls the former handlers only.
NoRunNoCall ==
    [][ \A g \in Guards :
          ~_run'[g] =>
            /\ (last'.op \in {"__enter__", "__exit__"} /\ last'.g = g) => called' = <<>>
            /\ ExitStep(g) => /\ ~last'.raised
                               /\ Contents(registry') = atEnter[g]
            /\ (last.op = "__exit__" /\ last.g = g /\ last'.op = "run")
                  => called' = Reverse(atEnter[g])
      ]_vars

\* __exit__ of a guard made without run has dropped a handler that the scope
\* had registered and that was registered still.
NoRunNoCallWitness ==
    /\ Was("__exit__", "G1", FALSE)
    /\ ~_run["G1"]
    /\ last.len > Len(atEnter["G1"])
    /\ atEnter["G1"] # <<>>
    /\ called = <<>>
    /\ Contents(registry) = atEnter["G1"]

\* C17: while a guard's with-block is open its snapshot is what the registry
\* held at __enter__, and no operation on the registry changes it.
SnapshotIsolation ==
    [][ \A g \in Guards :
          phase'[g] = "active" =>
            /\ _exithandlers'[g] = atEnter'[g]
            /\ phase[g] = "active" => _exithandlers'[g] = _exithandlers[g]
      ]_vars

\* Inside a guard that cleared a non-empty registry, the registry was
\* written again and differs from the snapshot, which is unchanged.
SnapshotIsolationWitness ==
    /\ phase["G1"] = "active"
    /\ _clear["G1"]
    /\ atEnter["G1"] # <<>>
    /\ last.op \in {"register", "set"}
    /\ Contents(registry) # atEnter["G1"]
    /\ registry # <<>>
    /\ _exithandlers["G1"] = atEnter["G1"]

\* C15: after the same operations on both builds, _get_exithandlers()
\* returns the same list on the list variant as on the state variant, a list
\* just returned is the one the other build returns, and _run_exitfuncs()
\* makes the same calls in the same order and ends the same way on both.
BuildsAgree ==
    /\ _get_exithandlers(variant, registry) = _get_exithandlers(OtherVariant(variant), twin)
    /\ last.op = "get" => xfer = _get_exithandlers(OtherVariant(variant), twin)
    /\ \A fail \in BOOLEAN :
          LET r == atexit__run_exitfuncs(registry, fail)
              t == atexit__run_exitfuncs(twin, fail)
          IN  r.called = t.called /\ r.raised = t.raised

\* Both builds returned the same two different handlers although the two
\* registries hold them differently (a NULL kwargs pointer on one).
BuildsAgreeWitness ==
    /\ last.op = "get"
    /\ Len(xfer) >= 2 /\ xfer[1] # xfer[2]
    /\ registry # twin
    /\ xfer = _get_exithandlers(OtherVariant(variant), twin)

====
